---- MODULE Spec2Model ----
(***************************************************************************)
(* SceneFinder upload backend: the POST /api/upload handler of             *)
(* src/server.js and the retrieval tool searchWebAndYoutube it calls.      *)
(* One request is followed from the multer middleware to the response.     *)
(* Every await of the handler is a position (pc) at which an external      *)
(* service answers; the answer is drawn from a small set.                  *)
(***************************************************************************)
EXTENDS Naturals, Sequences, FiniteSets, TLC

(***************************************************************************)
(* Bounds of the model.                                                    *)
(***************************************************************************)
\* longest tool_calls list of the second identification response
MaxToolCalls == 2
\* longest organic_results list of one search response
MaxResults == 2
\* longest caption-track list of one captions response
MaxTracks == 2

(***************************************************************************)
(* Program constants.                                                      *)
(***************************************************************************)
HttpOk == 200
HttpBadRequest == 400
HttpServerError == 500
HttpForbidden == 403
HttpTooManyRequests == 429

\* JavaScript's null / undefined, and "no value yet" of the model
Null == "null"
Undefined == "undefined"
None == "none"

(***************************************************************************)
(* Uploaded files (multer) and the uploads directory.                      *)
(***************************************************************************)
\* mutant of allowedTypes: images are let through
allowedTypesWithImages ==
  {"video/mp4", "video/quicktime", "audio/mpeg", "audio/mp4", "audio/wav",
   "audio/flac", "audio/ogg", "video/webm", "image/png"}

\* const allowedTypes = [...]
allowedTypes ==
  {"video/mp4", "video/quicktime", "audio/mpeg", "audio/mp4", "audio/wav",
   "audio/flac", "audio/ogg", "video/webm"}

\* the mimetypes a client may send: two allowed ones, one that is not
MimeTypes == {"video/mp4", "audio/mpeg", "image/png"}

\* req.file of a request that carries no file, and of one that does
NoFile == [present |-> FALSE, mimetype |-> None]
UploadedFiles == [present : {TRUE}, mimetype : MimeTypes]

\* req.file.path, the file multer wrote, and the temp-<Date.now()><ext> file
UploadPath == "uploads/upload"
tempFilePath == "uploads/temp"

(***************************************************************************)
(* What the identification provider may answer.                            *)
(***************************************************************************)
Unknown == "Unknown"

\* the records a response's content may parse to
SceneRecords ==
  [movie_or_series : {Unknown, "Inception"},
   season : {Null, "1"},
   episode : {Null, "1"}]

\* sceneDetails before it is assigned
NoRecord == [movie_or_series |-> None, season |-> None, episode |-> None]

\* JSON.stringify(v): the text that JSON.parse turns back into v
JSONstringify(v) == [json |-> v]

\* text that JSON.parse throws on
Unparsable == [text |-> "not json"]

\* TRUE iff JSON.parse(s) returns
JSONparses(s) == "json" \in DOMAIN s

\* the value JSON.parse(s) returns
JSONparse(s) == s.json

\* message.content of an identification response
Contents == {JSONstringify(r) : r \in SceneRecords} \cup {Unparsable}

\* message.content of a response that carries tool calls: null, no text
NullContent == [isNull |-> TRUE]

\* the transcription service's text
Transcripts == {"We need to go deeper"}

\* toolCall.function.name
SearchFunction == "search_web_and_youtube"
OtherFunction == "other_function"

\* toolCall.function.arguments: a string JSON.parse rejects, an object with
\* no query, an object with a query
Queries == {"we need to go deeper site:youtube.com"}
ArgumentValues ==
  {Unparsable} \cup {JSONstringify(a) : a \in [query : Queries \cup {Undefined}]}

\* the tool calls a response may carry: the search function with each kind
\* of arguments, and a function the handler does not know
ToolCalls ==
  [name : {SearchFunction}, arguments : ArgumentValues]
  \cup [name : {OtherFunction},
        arguments : {JSONstringify(a) : a \in [query : Queries]}]

\* the sequences over S of length at most n
SeqUpTo(S, n) == UNION {[1..k -> S] : k \in 0..n}

(***************************************************************************)
(* What the search provider and the caption provider may answer.           *)
(***************************************************************************)
\* one organic result, by its link: a page that is no video, a watch page
\* with a v= parameter (the video id), a watch page without one, and a
\* result that has no link at all
WebLink == "https://example.com/scene"
WatchLinkA == "https://www.youtube.com/watch?v=A"
WatchLinkNoId == "https://www.youtube.com/watch?list=L"

OrganicResults ==
  {[title |-> "web page", link |-> WebLink, snippet |-> "s0"],
   [title |-> "video A", link |-> WatchLinkA, snippet |-> "sA"],
   [title |-> "video without id", link |-> WatchLinkNoId, snippet |-> "sN"],
   [title |-> "no link", link |-> Undefined, snippet |-> "sU"]}

\* no error was caught
NoError == [caught |-> FALSE]

\* topResult before it is assigned
NoResult == [title |-> None, link |-> None, snippet |-> None]

\* the error of a failed request: error.response is set, with a status, or
\* is not (a network error, a timeout, a TypeError)
NoErrorResponse == [hasResponse |-> FALSE, status |-> 0]
Errors ==
  {[hasResponse |-> TRUE, status |-> s] :
     s \in {HttpForbidden, HttpTooManyRequests, HttpServerError}}
  \cup {NoErrorResponse}

CaptionLanguages == {"en", "en-US", "fr"}

\* A text is a sequence of tokens, each standing for a run of characters:
\* the words the caption normalizer looks for, a run of digits, a timecode
\* range, a space, a line break, and a word of speech.
Newline == "\n"
Space == " "
HeaderWord == "WEBVTT"
MetadataWords == {"Kind:", "Language:"}
DigitRun == "1"
TimecodeRange == "00:00:01.000 --> 00:00:02.000"
SpokenWord == "deeper"
VttTokens ==
  {HeaderWord, DigitRun, TimecodeRange, Space, Newline, SpokenWord} \cup MetadataWords

\* captionTrackResponse.data in a request: a cue-timed payload (the
\* normalizer is run on every short payload where it is taken alone)
VttPayloads ==
  {<<HeaderWord, Newline, "Kind:", Space, SpokenWord, Newline, Newline,
     DigitRun, Newline, TimecodeRange, Newline, SpokenWord>>}

VARIABLES
  pc,                  \* the handler's position (the await it is suspended at)
  file,                \* req.file: None, or [mimetype |-> ...]
  files,               \* the files in the uploads directory
  transcript,          \* transcription.text
  sceneDetails,        \* the handler's sceneDetails
  messages,            \* the handler's messages
  fallbackGptResponse, \* fallbackGptResponse.choices[0].message
  idx,                 \* the tool-call loop's position in tool_calls
  firstMatch,          \* history: the first organic result with a watch-page link
  topResult,           \* searchWebAndYoutube's topResult
  trackId,             \* englishCaption.id
  caught,              \* the error searchWebAndYoutube caught in the last step
  response,            \* the HTTP response sent: None, or [status, success, data]
  sent,                \* history: how many responses the handler has sent
  phase1,              \* history: the record parsed from the first response
  issued,              \* history: the external calls made, in order
  answered,            \* history: how many of them have returned or failed
  quotaSeen,           \* history: a search request was answered 403 or 429
  outcomes,            \* history: how each searchWebAndYoutube call ended
  captionData,         \* the normalizer alone: a caption payload
  normalized,          \* the normalizer alone: its successive results
  now,                 \* two requests: Date.now(), in milliseconds
  disk,                \* two requests: the files of the uploads directory
  requests             \* two requests: each one's position, temp file and outcome

\* the state of one request, its position apart
requestVars ==
  <<file, files, transcript, sceneDetails, messages, fallbackGptResponse, idx,
    firstMatch, topResult, trackId, caught, response, sent, phase1, issued, answered,
    quotaSeen, outcomes>>

\* the state of the normalizer taken alone, which no request touches
normalizerVars == <<captionData, normalized>>

\* the state of two requests running side by side
pairVars == <<now, disk, requests>>

vars == <<pc, requestVars, normalizerVars, pairVars>>

\* what one searchWebAndYoutube call leaves alone when it returns
handlerVars == <<file, files, transcript, sceneDetails, fallbackGptResponse, phase1>>

(***************************************************************************)
(* searchWebAndYoutube's pure parts.                                       *)
(***************************************************************************)
\* result.link.includes('youtube.com/watch')
IsWatchLink(link) == link \in {WatchLinkA, WatchLinkNoId}

\* topResult.link.match(/v=([^&]+)/): the captured id, or null
VideoIdOf(link) ==
  IF link = WatchLinkA THEN "A" ELSE Null

\* results.filter(result => result.link.includes('youtube.com/watch'))
youtubeResults(organic_results) ==
  SelectSeq(organic_results, LAMBDA r : IsWatchLink(r.link))

\* caption.snippet.language === 'en' || caption.snippet.language === 'en-US'
IsEnglish(language) == language \in {"en", "en-US"}

\* captions.find(...): the position of the first English track, 0 if none
englishCaption(captions) ==
  IF \E k \in 1..Len(captions) : IsEnglish(captions[k])
  THEN CHOOSE k \in 1..Len(captions) :
         /\ IsEnglish(captions[k])
         /\ \A j \in 1..(k - 1) : ~IsEnglish(captions[j])
  ELSE 0

RECURSIVE SplitLines(_)
\* vttText.split('\n')
SplitLines(text) ==
  IF \A k \in 1..Len(text) : text[k] # Newline THEN <<text>>
  ELSE LET k == CHOOSE i \in 1..Len(text) :
                  text[i] = Newline /\ \A j \in 1..(i - 1) : text[j] # Newline
       IN <<SubSeq(text, 1, k - 1)>> \o SplitLines(SubSeq(text, k + 1, Len(text)))

\* mutant of MatchesHeaderPattern: the last alternative is written with \s
\* where the line break stands
MatchesHeaderPatternAnySpace(line) ==
  \/ Len(line) >= 1 /\ line[1] \in {HeaderWord} \cup MetadataWords
  \/ /\ Len(line) >= 3
     /\ line[1] = DigitRun
     /\ line[2] \in {Space, Newline}
     /\ line[3] = TimecodeRange

\* line.match(/^(WEBVTT|Kind:|Language:|\d+\n\d{2}:\d{2}:\d{2}\.\d{3} -->
\* \d{2}:\d{2}:\d{2}\.\d{3})/): the line begins with one of the words, or
\* with digits, a line break and a timecode range
MatchesHeaderPattern(line) ==
  \/ Len(line) >= 1 /\ line[1] \in {HeaderWord} \cup MetadataWords
  \/ /\ Len(line) >= 3
     /\ line[1] = DigitRun
     /\ line[2] = Newline
     /\ line[3] = TimecodeRange

\* line.trim() === ''
IsBlank(line) == \A k \in 1..Len(line) : line[k] \in {Space, Newline}

RECURSIVE JoinWithSpace(_)
\* lines.join(' ')
JoinWithSpace(lines) ==
  IF lines = <<>> THEN <<>>
  ELSE IF Len(lines) = 1 THEN lines[1]
  ELSE lines[1] \o <<Space>> \o JoinWithSpace(Tail(lines))

\* vttText.split('\n').filter(...).filter(...).join(' ')
NormalizeVtt(vttText) ==
  JoinWithSpace(
    SelectSeq(SelectSeq(SplitLines(vttText), LAMBDA l : ~MatchesHeaderPattern(l)),
              LAMBDA l : ~IsBlank(l)))

\* the transcript of an Evidence when no caption text was fetched
TranscriptNotFetched == <<"Transcript not fetched.">>
NoEnglishCaptions == <<"No English captions available.">>
ErrorFetchingTranscript == <<"Error fetching transcript.">>

\* JSON.stringify({ results: [] })
EmptyResults == JSONstringify([results |-> <<>>])

\* JSON.stringify({ quota_exhausted: true })
QuotaExhausted == JSONstringify([quota_exhausted |-> TRUE])

\* JSON.stringify({ results: [{ title, link, snippet, video_id, transcript }] })
Evidence(top, text) ==
  JSONstringify(
    [results |-> <<[title |-> top.title, link |-> top.link, snippet |-> top.snippet,
                    video_id |-> VideoIdOf(top.link), transcript |-> text]>>])

\* error.response && (error.response.status === 403 || error.response.status === 429)
IsQuotaError(error) ==
  error.hasResponse /\ error.status \in {HttpForbidden, HttpTooManyRequests}

\* parsedResponse.quota_exhausted
quota_exhausted(parsed) == "quota_exhausted" \in DOMAIN parsed /\ parsed.quota_exhausted

(***************************************************************************)
(* The conversation sent to the identification provider.                   *)
(***************************************************************************)
\* mutant of fallbackPrompt: the template forgets ${transcription.text}
fallbackPromptWithoutTranscript(text) == [prompt |-> "fallbackPrompt", transcript |-> None]

\* the template literal fallbackPrompt: its text embeds transcription.text
\* and nothing else of the handler's state
fallbackPrompt(text) == [prompt |-> "fallbackPrompt", transcript |-> text]

\* { role: 'user', content: fallbackPrompt }
UserMessage(content) ==
  [role |-> "user", content |-> content, tool_call_id |-> 0, tool_calls |-> <<>>]

\* fallbackGptResponse.choices[0].message, as pushed
AssistantMessage(message) ==
  [role |-> "assistant", content |-> message.content, tool_call_id |-> 0,
   tool_calls |-> message.tool_calls]

\* { role: 'tool', content: toolResponse, tool_call_id: toolCall.id }
ToolMessage(toolResponse, id) ==
  [role |-> "tool", content |-> toolResponse, tool_call_id |-> id, tool_calls |-> <<>>]

\* the provider's ids of the tool calls of one response: their positions
WithIds(tcs) ==
  [k \in 1..Len(tcs) |-> [id |-> k, name |-> tcs[k].name, arguments |-> tcs[k].arguments]]

\* a response message without tool_calls, and one with
PlainMessage(content) ==
  [content |-> content, has_tool_calls |-> FALSE, tool_calls |-> <<>>]
ToolCallMessage(tcs) ==
  [content |-> NullContent, has_tool_calls |-> TRUE, tool_calls |-> WithIds(tcs)]

\* fallbackGptResponse before it is assigned
NoMessage == [content |-> NullContent, has_tool_calls |-> FALSE, tool_calls |-> <<>>]

\* mutant of needsFallback: the gate does not look at the title
needsFallbackAlways(record) == TRUE

\* sceneDetails.movie_or_series === 'Unknown'
needsFallback(record) == record.movie_or_series = Unknown

\* messages.some(msg => msg.role === 'tool' && msg.content &&
\*               JSON.parse(msg.content).quota_exhausted)
quotaInMessages(msgs) ==
  \E k \in 1..Len(msgs) :
    /\ msgs[k].role = "tool"
    /\ quota_exhausted(JSONparse(msgs[k].content))

(***************************************************************************)
(* The initial state: the request has arrived, nothing has run.            *)
(***************************************************************************)
NoResponse == [status |-> 0, success |-> FALSE, data |-> NoRecord, error |-> None]

\* error.message of what the handler's try block may throw
TranscriptionFailed == "transcription request failed"
IdentificationFailed == "identification request failed"
JSONSyntaxError == "Unexpected token in JSON"
NoSuchFile == "ENOENT: no such file or directory"

\* nothing of a request has run
NothingRan ==
  /\ file = NoFile
  /\ files = {}
  /\ transcript = None
  /\ sceneDetails = NoRecord
  /\ messages = <<>>
  /\ fallbackGptResponse = NoMessage
  /\ idx = 0
  /\ firstMatch = NoResult
  /\ topResult = NoResult
  /\ trackId = 0
  /\ caught = NoError
  /\ response = NoResponse
  /\ sent = 0
  /\ phase1 = NoRecord
  /\ issued = <<>>
  /\ answered = 0
  /\ quotaSeen = FALSE
  /\ outcomes = <<>>

\* the normalizer taken alone is not in use
NormalizerIdle ==
  /\ captionData = <<>>
  /\ normalized = <<>>

\* the uploads directory and the requests of the two-request model, before
\* any of them has arrived
NoPath == <<"none", 0, "">>
NoRequest ==
  [pc |-> "multer", originalExt |-> "", tempFilePath |-> NoPath, read |-> 0,
   status |-> 0, error |-> None]
Requests == {1, 2}
PairIdle ==
  /\ now = 0
  /\ disk = {}
  /\ requests = [r \in Requests |-> NoRequest]

Init ==
  /\ pc = "multer"
  /\ NothingRan
  /\ NormalizerIdle
  /\ PairIdle

\* an external call is made
Issue(call) == issued' = Append(issued, call)

\* mutant of Respond: the response is sent without return, the handler
\* stays where it is
RespondWithoutReturn(status, record, error) ==
  /\ response' = [status |-> status, success |-> status = HttpOk, data |-> record,
                  error |-> error]
  /\ sent' = sent + 1
  /\ pc' = pc

\* return res.status(status).json(body): the response leaves and the
\* handler ends
Respond(status, record, error) ==
  /\ response' = [status |-> status, success |-> status = HttpOk, data |-> record,
                  error |-> error]
  /\ sent' = sent + 1
  /\ pc' = "done"

\* res.status(200).json({ success: true, data: sceneDetails })
RespondSuccess(record) == Respond(HttpOk, record, None)

\* mutant of CatchError: the catch answers 200 with whatever record the
\* handler holds
CatchErrorDegrades(message) == Respond(HttpOk, sceneDetails, None)

\* the handler's catch: res.status(500).json({ error: error.message })
CatchError(message) == Respond(HttpServerError, NoRecord, message)

(***************************************************************************)
(* The upload handler up to the first identification response.             *)
(***************************************************************************)
\* upload.single('video'): multer writes the uploaded file, if any, into the
\* uploads directory and sets req.file
MulterStore ==
  /\ pc = "multer"
  /\ UNCHANGED answered
  /\ UNCHANGED <<normalizerVars, pairVars>>
  /\ caught' = NoError
  /\ \E f \in {NoFile} \cup UploadedFiles :
       /\ file' = f
       /\ files' = IF f.present THEN {UploadPath} ELSE {}
  /\ pc' = "handler"
  /\ UNCHANGED <<transcript, sceneDetails, messages, fallbackGptResponse, idx,
                 firstMatch, topResult, trackId, response, sent, phase1, issued, quotaSeen, outcomes>>

\* the handler from its entry to the await of the transcription
UploadHandler ==
  /\ pc = "handler"
  /\ UNCHANGED answered
  /\ UNCHANGED <<normalizerVars, pairVars>>
  /\ caught' = NoError
  /\ IF ~file.present
     THEN /\ Respond(HttpBadRequest, NoRecord, "No video file uploaded")
          /\ UNCHANGED <<files, issued>>
     ELSE IF file.mimetype \notin allowedTypes
     THEN /\ files' = files \ {UploadPath}
          /\ Respond(HttpBadRequest, NoRecord, "Invalid file type")
          /\ UNCHANGED issued
     ELSE /\ files' = (files \ {UploadPath}) \cup {tempFilePath}
          /\ Issue("transcription")
          /\ pc' = "transcription"
          /\ UNCHANGED <<response, sent>>
  /\ UNCHANGED <<file, transcript, sceneDetails, messages, fallbackGptResponse, idx,
                 firstMatch, topResult, trackId, phase1, quotaSeen, outcomes>>

\* openai.audio.transcriptions.create returns or throws; on return the temp
\* file is unlinked and the first identification request is sent
TranscriptionReturns ==
  /\ pc = "transcription"
  /\ answered' = answered + 1
  /\ UNCHANGED <<normalizerVars, pairVars>>
  /\ caught' = NoError
  /\ \/ /\ CatchError(TranscriptionFailed)
        /\ UNCHANGED <<transcript, files, issued>>
     \/ /\ \E text \in Transcripts : transcript' = text
        /\ files' = files \ {tempFilePath}
        /\ Issue("identification")
        /\ pc' = "ident1"
        /\ UNCHANGED <<response, sent>>
  /\ UNCHANGED <<file, sceneDetails, messages, fallbackGptResponse, idx,
                 firstMatch, topResult, trackId, phase1, quotaSeen, outcomes>>

\* the first identification call returns or throws: the gate on
\* movie_or_series, and the second (tool-exposing) request
Ident1Returns ==
  /\ pc = "ident1"
  /\ answered' = answered + 1
  /\ UNCHANGED <<normalizerVars, pairVars>>
  /\ caught' = NoError
  /\ \/ /\ CatchError(IdentificationFailed)
        /\ UNCHANGED <<sceneDetails, phase1, messages, issued>>
     \/ /\ \E content \in Contents :
             IF ~JSONparses(content)
             THEN /\ CatchError(JSONSyntaxError)
                  /\ UNCHANGED <<sceneDetails, phase1, messages, issued>>
             ELSE /\ sceneDetails' = JSONparse(content)
                  /\ phase1' = JSONparse(content)
                  /\ IF needsFallback(JSONparse(content))
                     THEN /\ messages' = <<UserMessage(fallbackPrompt(transcript))>>
                          /\ Issue("identification")
                          /\ pc' = "ident2"
                          /\ UNCHANGED <<response, sent>>
                     ELSE /\ RespondSuccess(JSONparse(content))
                          /\ UNCHANGED <<messages, issued>>
  /\ UNCHANGED <<file, files, transcript, fallbackGptResponse, idx,
                 firstMatch, topResult, trackId, quotaSeen, outcomes>>

(***************************************************************************)
(* After the tool-call loop (it ran to its end, or a break left it).       *)
(***************************************************************************)
\* mutant of AfterLoop: the request after the tool round exposes the tool
\* again and its tool calls are run (a recursive tool loop)
AfterLoopRecursive ==
  /\ Issue("identification")
  /\ pc' = "ident2"
  /\ UNCHANGED <<response, sent>>

\* if (!messages.some(...quota_exhausted)) { third request } else { keep }
AfterLoop ==
  IF ~quotaInMessages(messages)
  THEN /\ Issue("identification")
       /\ pc' = "ident3"
       /\ UNCHANGED <<response, sent>>
  ELSE /\ RespondSuccess(sceneDetails)
       /\ UNCHANGED issued

\* the second identification call returns or throws
Ident2Returns ==
  /\ pc = "ident2"
  /\ answered' = answered + 1
  /\ UNCHANGED <<normalizerVars, pairVars>>
  /\ caught' = NoError
  /\ \/ /\ CatchError(IdentificationFailed)
        /\ UNCHANGED <<fallbackGptResponse, messages, idx>>
     \/ /\ \E content \in Contents : fallbackGptResponse' = PlainMessage(content)
        /\ RespondSuccess(sceneDetails)
        /\ UNCHANGED <<messages, idx>>
     \/ /\ \E tcs \in SeqUpTo(ToolCalls, MaxToolCalls) :
             /\ fallbackGptResponse' = ToolCallMessage(tcs)
             /\ messages' = Append(messages, AssistantMessage(ToolCallMessage(tcs)))
        /\ idx' = 1
        /\ pc' = "loop"
        /\ UNCHANGED <<response, sent>>
  /\ UNCHANGED <<file, files, transcript, sceneDetails, firstMatch, topResult, trackId,
                 phase1, issued, quotaSeen, outcomes>>

\* mutant of ToolLoop: searchWebAndYoutube is called without await, the loop
\* goes on to the next tool call at once
ToolLoopNoAwait ==
  /\ pc = "loop"
  /\ UNCHANGED answered
  /\ UNCHANGED <<normalizerVars, pairVars>>
  /\ caught' = NoError
  /\ IF idx > Len(fallbackGptResponse.tool_calls)
     THEN /\ AfterLoop
          /\ UNCHANGED idx
     ELSE LET toolCall == fallbackGptResponse.tool_calls[idx] IN
          IF ~JSONparses(toolCall.arguments)
          THEN /\ CatchError(JSONSyntaxError)
               /\ UNCHANGED <<idx, issued>>
          ELSE IF toolCall.name = SearchFunction
          THEN /\ Issue("search")
               /\ idx' = idx + 1
               /\ UNCHANGED <<pc, response, sent>>
          ELSE /\ idx' = idx + 1
               /\ UNCHANGED <<pc, issued, response, sent>>
  /\ UNCHANGED <<file, files, transcript, sceneDetails, messages, fallbackGptResponse,
                 firstMatch, topResult, trackId, phase1, quotaSeen, outcomes>>

\* one iteration of for (const toolCall of ...tool_calls) up to its await,
\* or the end of the loop
ToolLoop ==
  /\ pc = "loop"
  /\ UNCHANGED answered
  /\ UNCHANGED <<normalizerVars, pairVars>>
  /\ caught' = NoError
  /\ IF idx > Len(fallbackGptResponse.tool_calls)
     THEN /\ AfterLoop
          /\ UNCHANGED idx
     ELSE LET toolCall == fallbackGptResponse.tool_calls[idx] IN
          IF ~JSONparses(toolCall.arguments)
          THEN /\ CatchError(JSONSyntaxError)
               /\ UNCHANGED <<idx, issued>>
          ELSE IF toolCall.name = SearchFunction
          THEN /\ Issue("search")
               /\ pc' = "search"
               /\ UNCHANGED <<idx, response, sent>>
          ELSE /\ idx' = idx + 1
               /\ UNCHANGED <<pc, issued, response, sent>>
  /\ UNCHANGED <<file, files, transcript, sceneDetails, messages, fallbackGptResponse,
                 firstMatch, topResult, trackId, phase1, quotaSeen, outcomes>>

(***************************************************************************)
(* searchWebAndYoutube, called from the loop: the search request, the      *)
(* caption-track listing and the caption payload request.                  *)
(***************************************************************************)
\* the tool call the loop is at
toolCall == fallbackGptResponse.tool_calls[idx]

\* history: what made the call for the tool call the loop is at return:
\* the search request failed ("searchError") or a result had no link
\* ("malformed"), "novideo", "noid" (no v= parameter), "listError",
\* "noEnglish", "trackError", or "evidence" (captions fetched), and what the
\* call returned
Outcome(toolResponse, kind) ==
  [id |-> toolCall.id, kind |-> kind, returned |-> toolResponse]

\* searchWebAndYoutube returned toolResponse without quota exhaustion: the
\* tool message is pushed and the loop goes on with the next tool call
PushToolResponse(toolResponse, kind) ==
  /\ messages' = Append(messages, ToolMessage(toolResponse, toolCall.id))
  /\ outcomes' = Append(outcomes, Outcome(toolResponse, kind))
  /\ idx' = idx + 1
  /\ pc' = "loop"
  /\ UNCHANGED <<issued, response, sent>>

\* mutant of BreakLoop: no break, the loop goes on with the next tool call
ContinueLoop ==
  /\ idx' = idx + 1
  /\ pc' = "loop"
  /\ UNCHANGED <<messages, issued, response, sent>>

\* if (parsedResponse.quota_exhausted) { break; }: nothing is pushed, the
\* remaining tool calls are left, the code after the loop runs
BreakLoop ==
  /\ AfterLoop
  /\ UNCHANGED <<messages, idx>>

\* searchWebAndYoutube returns toolResponse (its locals are gone), and what
\* the handler does with it
HandleToolResponse(toolResponse, kind) ==
  /\ firstMatch' = NoResult
  /\ topResult' = NoResult
  /\ trackId' = 0
  /\ IF quota_exhausted(JSONparse(toolResponse))
     THEN /\ outcomes' = Append(outcomes, Outcome(toolResponse, kind))
          /\ BreakLoop
     ELSE PushToolResponse(toolResponse, kind)

\* history: the first of organic_results whose link is a watch-page link
FirstMatching(organic_results) ==
  organic_results[CHOOSE k \in 1..Len(organic_results) :
                    /\ IsWatchLink(organic_results[k].link)
                    /\ \A j \in 1..(k - 1) : ~IsWatchLink(organic_results[j].link)]

\* the search request fails, or answers with organic_results
SearchReturns ==
  /\ pc = "search"
  /\ answered' = answered + 1
  /\ UNCHANGED <<normalizerVars, pairVars>>
  /\ \/ \E error \in Errors :
          /\ quotaSeen' = (quotaSeen \/ IsQuotaError(error))
          /\ caught' = error
          /\ IF IsQuotaError(error)
             THEN HandleToolResponse(QuotaExhausted, "searchError")
             ELSE HandleToolResponse(EmptyResults, "searchError")
     \/ \E organic_results \in SeqUpTo(OrganicResults, MaxResults) :
          /\ UNCHANGED quotaSeen
          /\ caught' = IF \E k \in 1..Len(organic_results) :
                             organic_results[k].link = Undefined
                        THEN NoErrorResponse ELSE NoError
          /\ IF \E k \in 1..Len(organic_results) : organic_results[k].link = Undefined
             THEN \* result.link.includes throws a TypeError: the outer catch
                  HandleToolResponse(EmptyResults, "malformed")
             ELSE IF youtubeResults(organic_results) = <<>>
             THEN HandleToolResponse(EmptyResults, "novideo")
             ELSE LET top == youtubeResults(organic_results)[1] IN
                  IF VideoIdOf(top.link) = Null
                  THEN HandleToolResponse(Evidence(top, TranscriptNotFetched), "noid")
                  ELSE /\ firstMatch' = FirstMatching(organic_results)
                       /\ topResult' = top
                       /\ Issue("captions")
                       /\ pc' = "captions"
                       /\ UNCHANGED <<messages, outcomes, idx, response, sent, trackId>>
  /\ UNCHANGED handlerVars

\* mutant of InnerCatch: a 403 or 429 of the caption provider is reported
\* like one of the search provider
InnerCatchQuota(error) ==
  IF IsQuotaError(error) THEN QuotaExhausted
  ELSE Evidence(topResult, ErrorFetchingTranscript)

\* catch (error) { transcript = 'Error fetching transcript.'; } and the
\* return of the evidence that follows it, whatever the error
InnerCatch(error) == Evidence(topResult, ErrorFetchingTranscript)

\* the caption-track listing fails, or answers with the tracks
CaptionsReturn ==
  /\ pc = "captions"
  /\ answered' = answered + 1
  /\ UNCHANGED <<normalizerVars, pairVars>>
  /\ \/ \E error \in Errors :
          /\ caught' = error
          /\ HandleToolResponse(InnerCatch(error), "listError")
     \/ \E captions \in SeqUpTo(CaptionLanguages, MaxTracks) :
          /\ caught' = NoError
          /\ IF englishCaption(captions) = 0
             THEN HandleToolResponse(Evidence(topResult, NoEnglishCaptions), "noEnglish")
             ELSE /\ trackId' = englishCaption(captions)
                  /\ Issue("track")
                  /\ pc' = "track"
                  /\ UNCHANGED <<messages, outcomes, idx, response, sent, firstMatch, topResult>>
  /\ UNCHANGED <<handlerVars, quotaSeen>>

\* the caption payload request fails, or answers with the cue-timed text
TrackReturns ==
  /\ pc = "track"
  /\ answered' = answered + 1
  /\ UNCHANGED <<normalizerVars, pairVars>>
  /\ \/ \E error \in Errors :
          /\ caught' = error
          /\ HandleToolResponse(InnerCatch(error), "trackError")
     \/ \E vttText \in VttPayloads :
          /\ caught' = NoError
          /\ HandleToolResponse(Evidence(topResult, NormalizeVtt(vttText)), "evidence")
  /\ UNCHANGED <<handlerVars, quotaSeen>>

(***************************************************************************)
(* The third (final) identification response.                              *)
(***************************************************************************)
\* a response to the third request; the request names no tools, and tool
\* calls in the response, should the provider send any, are not looked at
FinalMessages ==
  {PlainMessage(content) : content \in Contents}
  \cup {[content |-> JSONstringify(record), has_tool_calls |-> TRUE,
         tool_calls |-> WithIds(<<tc>>)] :
          record \in [movie_or_series : {"Inception"}, season : {Null}, episode : {Null}],
          tc \in [name : {SearchFunction},
                  arguments : {JSONstringify([query |-> q]) : q \in Queries}]}

Ident3Returns ==
  /\ pc = "ident3"
  /\ answered' = answered + 1
  /\ UNCHANGED <<normalizerVars, pairVars>>
  /\ caught' = NoError
  /\ \/ /\ CatchError(IdentificationFailed)
        /\ UNCHANGED <<fallbackGptResponse, sceneDetails>>
     \/ \E message \in FinalMessages :
          /\ fallbackGptResponse' = message
          /\ IF ~JSONparses(message.content)
             THEN /\ CatchError(JSONSyntaxError)
                  /\ UNCHANGED sceneDetails
             ELSE /\ sceneDetails' = JSONparse(message.content)
                  /\ RespondSuccess(JSONparse(message.content))
  /\ UNCHANGED <<file, files, transcript, messages, idx, firstMatch, topResult, trackId,
                 phase1, issued, quotaSeen, outcomes>>

Next ==
  \/ MulterStore
  \/ UploadHandler
  \/ TranscriptionReturns
  \/ Ident1Returns
  \/ Ident2Returns
  \/ ToolLoop
  \/ SearchReturns
  \/ CaptionsReturn
  \/ TrackReturns
  \/ Ident3Returns

Spec == Init /\ [][Next]_vars

\* the event loop runs the handler whenever it can go on, and every external
\* call returns or fails in the end
FairSpec == Spec /\ WF_vars(Next)

(***************************************************************************)
(* The caption normalizer taken alone: it is applied to a payload, and     *)
(* again to each result.                                                   *)
(***************************************************************************)
MaxVttLen == 4
MaxPasses == 2

NormInit ==
  /\ pc = "normalizer"
  /\ NothingRan
  /\ PairIdle
  /\ captionData \in SeqUpTo(VttTokens, MaxVttLen)
  /\ normalized = <<>>

Normalize ==
  /\ pc = "normalizer"
  /\ Len(normalized) < MaxPasses
  /\ normalized' =
       Append(normalized,
              NormalizeVtt(IF normalized = <<>> THEN captionData
                           ELSE normalized[Len(normalized)]))
  /\ UNCHANGED <<pc, requestVars, captionData, pairVars>>

NormNext == Normalize

NormSpec == NormInit /\ [][NormNext]_vars

(***************************************************************************)
(* Two requests side by side: what they share is the uploads directory and *)
(* the clock.  Both carry an accepted file; of each handler the steps      *)
(* that touch the directory are kept, and the calls after the              *)
(* transcription are taken to answer.                                      *)
(***************************************************************************)
MaxNow == 1

\* path.extname(req.file.originalname).toLowerCase()
Extensions == {".mp4", ".mov"}

\* req.file.path: multer gives every upload a random name of its own
uploadPath(r) == <<"upload", r, "">>

\* path.join(uploadDir, `temp-${Date.now()}${originalExt}`)
tempPath(ms, ext) == <<"temp", ms, ext>>

\* the file at path, and the directory without it
Exists(path) == \E f \in disk : f.path = path
ContentAt(path) == (CHOOSE f \in disk : f.path = path).content
Without(paths) == {f \in disk : f.path \notin paths}

PairInit ==
  /\ pc = "pair"
  /\ NothingRan
  /\ NormalizerIdle
  /\ PairIdle

\* a millisecond passes
Tick ==
  /\ pc = "pair"
  /\ now < MaxNow
  /\ now' = now + 1
  /\ UNCHANGED <<pc, requestVars, normalizerVars, disk, requests>>

\* upload.single('video') stores the upload of request r
PairMulterStore(r) ==
  /\ pc = "pair"
  /\ requests[r].pc = "multer"
  /\ \E ext \in Extensions :
       requests' = [requests EXCEPT ![r].pc = "handler", ![r].originalExt = ext]
  /\ disk' = disk \cup {[path |-> uploadPath(r), content |-> r]}
  /\ UNCHANGED <<pc, requestVars, normalizerVars, now>>

\* the handler of request r up to its await: fs.renameSync(req.file.path,
\* tempFilePath), which replaces a file already at tempFilePath, and
\* fs.createReadStream(tempFilePath), which opens the file later
PairUploadHandler(r) ==
  /\ pc = "pair"
  /\ requests[r].pc = "handler"
  /\ LET temp == tempPath(now, requests[r].originalExt) IN
       /\ disk' = Without({uploadPath(r), temp}) \cup {[path |-> temp, content |-> r]}
       /\ requests' = [requests EXCEPT ![r].pc = "open", ![r].tempFilePath = temp]
  /\ UNCHANGED <<pc, requestVars, normalizerVars, now>>

\* the read stream of request r opens tempFilePath: what the transcription
\* service will be sent is the file found there, if there is one
PairStreamOpens(r) ==
  /\ pc = "pair"
  /\ requests[r].pc = "open"
  /\ requests' =
       [requests EXCEPT
          ![r].pc = "transcription",
          ![r].read = IF Exists(requests[r].tempFilePath)
                      THEN ContentAt(requests[r].tempFilePath) ELSE 0]
  /\ UNCHANGED <<pc, requestVars, normalizerVars, now, disk>>

\* the transcription of request r returns or throws; on return
\* fs.unlinkSync(tempFilePath), which throws when no file is there, and the
\* rest of the handler
PairTranscriptionReturns(r) ==
  /\ pc = "pair"
  /\ requests[r].pc = "transcription"
  /\ \/ /\ requests' = [requests EXCEPT ![r].pc = "done", ![r].status = HttpServerError,
                                         ![r].error = TranscriptionFailed]
        /\ UNCHANGED disk
     \/ /\ requests[r].read # 0
        /\ IF Exists(requests[r].tempFilePath)
           THEN /\ disk' = Without({requests[r].tempFilePath})
                /\ requests' = [requests EXCEPT ![r].pc = "done", ![r].status = HttpOk]
           ELSE /\ requests' = [requests EXCEPT ![r].pc = "done",
                                                ![r].status = HttpServerError,
                                                ![r].error = NoSuchFile]
                /\ UNCHANGED disk
  /\ UNCHANGED <<pc, requestVars, normalizerVars, now>>

PairNext ==
  \/ Tick
  \/ \E r \in Requests : PairMulterStore(r)
  \/ \E r \in Requests : PairUploadHandler(r)
  \/ \E r \in Requests : PairStreamOpens(r)
  \/ \E r \in Requests : PairTranscriptionReturns(r)

PairSpec == PairInit /\ [][PairNext]_vars

TypeOK ==
  /\ pc \in {"multer", "handler", "transcription", "ident1", "ident2", "loop",
             "search", "captions", "track", "ident3", "done", "normalizer", "pair"}
  /\ idx \in 0..(MaxToolCalls + 1)
  /\ Len(issued) <= 4 + 3 * MaxToolCalls

(***************************************************************************)
(* Vocabulary of the properties.                                           *)
(***************************************************************************)
IdentificationCall == "identification"
RetrievalCalls == {"search", "captions", "track"}

\* how many calls of one kind have been made
NumIssued(call) == Cardinality({k \in 1..Len(issued) : issued[k] = call})

\* how many identification calls precede the k-th call
IdentsBefore(k) == Cardinality({j \in 1..(k - 1) : issued[j] = IdentificationCall})

Done == pc = "done"

\* the third identification request has been sent; messages is what it carried
ThirdRequestIssued == NumIssued(IdentificationCall) = 3

\* the request ended in a success response carrying the Phase-1 record
SucceededWithPhase1 ==
  /\ response.status = HttpOk
  /\ response.success
  /\ response.data = phase1

\* the tool calls the second response requested (messages keeps them)
RequestedCalls == IF Len(messages) >= 2 THEN messages[2].tool_calls ELSE <<>>

\* a requested invocation of the search function without a usable query
NoUsableQuery(tc) ==
  /\ tc.name = SearchFunction
  /\ \/ ~JSONparses(tc.arguments)
     \/ JSONparse(tc.arguments).query = Undefined

\* every requested invocation names the search function with a query, and
\* there is at least one
AllQueriesUsable ==
  /\ Len(RequestedCalls) >= 1
  /\ \A k \in 1..Len(RequestedCalls) :
       RequestedCalls[k].name = SearchFunction /\ ~NoUsableQuery(RequestedCalls[k])

TranscriptIn(msgs) ==
  \E k \in 1..Len(msgs) :
    /\ msgs[k].role = "user"
    /\ transcript \in Transcripts
    /\ msgs[k].content.transcript = transcript

Phase1AnswerIn(msgs) ==
  \E k \in 1..Len(msgs) : msgs[k].content = JSONstringify(phase1)

\* every executed invocation that did not end in quota exhaustion has its
\* tool response (evidence, or the empty-results marker) in msgs
EvidenceIn(msgs) ==
  \A j \in 1..Len(outcomes) :
    outcomes[j].returned # QuotaExhausted =>
      \E k \in 1..Len(msgs) :
        /\ msgs[k].role = "tool"
        /\ msgs[k].tool_call_id = outcomes[j].id
        /\ (outcomes[j].kind \in {"searchError", "malformed", "novideo"})
             <=> (msgs[k].content = EmptyResults)

(***************************************************************************)
(* C1. Quota exhaustion degrades to the Phase-1 result: once a search      *)
(* request has been answered 403 or 429, no third identification request   *)
(* is sent, and the request ends with a 200 response whose record is the   *)
(* Phase-1 record.  Stated for requests whose invocations all carry a      *)
(* usable query, so that no other failure is involved.                     *)
(***************************************************************************)
C1_QuotaDegradesToPhase1 ==
  (quotaSeen /\ AllQueriesUsable) =>
    /\ NumIssued(IdentificationCall) <= 2
    /\ Done => SucceededWithPhase1

(***************************************************************************)
(* C2. Phase-1 gate: when the Phase-1 record's movie_or_series is not      *)
(* "Unknown", no retrieval call and no second or third identification     *)
(* call is made, and the response is 200 with exactly the Phase-1 record.  *)
(***************************************************************************)
C2_Phase1Gate ==
  (phase1 \in SceneRecords /\ phase1.movie_or_series # Unknown) =>
    /\ \A k \in 1..Len(issued) : issued[k] \notin RetrievalCalls
    /\ NumIssued(IdentificationCall) = 1
    /\ Done
    /\ SucceededWithPhase1

C2_Witness ==
  /\ Done
  /\ phase1 \in SceneRecords
  /\ phase1.movie_or_series = "Inception"
  /\ response.data = phase1

(***************************************************************************)
(* C3. Degradation on malformed final output: if the third response does   *)
(* not parse as JSON, the request ends with a 200 response whose record is *)
(* the Phase-1 record.  Stated for requests whose retrieval round ran      *)
(* every requested invocation without quota exhaustion.                    *)
(***************************************************************************)
C3_MalformedFinalDegrades ==
  (/\ Done
   /\ ThirdRequestIssued
   /\ fallbackGptResponse.content = Unparsable
   /\ AllQueriesUsable
   /\ ~quotaSeen) =>
    SucceededWithPhase1

(***************************************************************************)
(* C4. A failure of the second or third identification call is not         *)
(* surfaced: the request ends with a 200 response carrying the Phase-1     *)
(* record.                                                                 *)
(***************************************************************************)
C4_LaterIdentificationFailureDegrades ==
  (Done /\ NumIssued(IdentificationCall) >= 2
        /\ response.error = IdentificationFailed) =>
    SucceededWithPhase1

(***************************************************************************)
(* C5. The quota breaker is sticky: once a search request of the request   *)
(* has been answered 403 or 429, no step makes a further call to the       *)
(* search provider or the caption provider.                                *)
(***************************************************************************)
C5_QuotaSticky ==
  [][quotaSeen =>
       \A k \in 1..Len(issued') : k > Len(issued) => issued'[k] \notin RetrievalCalls]_vars

\* quota was hit while a later requested search invocation with a query
\* was still to run, and the request has ended
C5_Witness ==
  /\ Done
  /\ quotaSeen
  /\ idx < Len(RequestedCalls)
  /\ RequestedCalls[idx + 1].name = SearchFunction
  /\ ~NoUsableQuery(RequestedCalls[idx + 1])

(***************************************************************************)
(* C6. Record invariant on output: every record of a success response has  *)
(* season and episode null when its movie_or_series is "Unknown".          *)
(***************************************************************************)
C6_UnknownHasNoSeasonEpisode ==
  (Done /\ response.success /\ response.data.movie_or_series = Unknown) =>
    (response.data.season = Null /\ response.data.episode = Null)

(***************************************************************************)
(* C7. Bounded protocol: at most three identification calls are made, and  *)
(* every retrieval call (search, caption listing, caption payload) is made *)
(* after the second identification call and before the third, so none      *)
(* follows the third response, whatever tool calls it carries.             *)
(***************************************************************************)
C7_BoundedProtocol ==
  /\ NumIssued(IdentificationCall) <= 3
  /\ \A k \in 1..Len(issued) : issued[k] \in RetrievalCalls => IdentsBefore(k) = 2

\* the third response carried a tool call after a round of two searches
C7_Witness ==
  /\ Done
  /\ ThirdRequestIssued
  /\ fallbackGptResponse.has_tool_calls
  /\ NumIssued("search") >= 2

(***************************************************************************)
(* C8. No usable query: a requested invocation whose arguments do not      *)
(* parse or hold no query causes no search request, and the request ends   *)
(* with a 200 response carrying the Phase-1 record.                        *)
(***************************************************************************)
C8_NoUsableQuerySkipsRetrieval ==
  /\ pc = "search" => ~NoUsableQuery(toolCall)
  /\ (Done /\ \E k \in 1..Len(RequestedCalls) : NoUsableQuery(RequestedCalls[k])) =>
       SucceededWithPhase1

(***************************************************************************)
(* C9 as stated: whenever the third identification request is sent, its    *)
(* conversation holds the transcript, the Phase-1 answer and the evidence  *)
(* (or empty-results marker) of the executed invocations.                  *)
(***************************************************************************)
C9_FinalRequestHasPhase1Answer ==
  ThirdRequestIssued =>
    /\ TranscriptIn(messages)
    /\ Phase1AnswerIn(messages)
    /\ EvidenceIn(messages)

(***************************************************************************)
(* C9 as amended: whenever the third identification request is sent, its   *)
(* conversation is the fallback prompt holding the transcript, the         *)
(* assistant message with the requested invocations, and the tool response *)
(* (evidence or empty-results marker) of every executed invocation that    *)
(* did not end in quota exhaustion; the Phase-1 answer is not in it.       *)
(***************************************************************************)
C9_FinalRequestContent ==
  ThirdRequestIssued =>
    /\ TranscriptIn(messages)
    /\ messages[2].role = "assistant"
    /\ EvidenceIn(messages)
    /\ ~Phase1AnswerIn(messages)

\* the third request is in flight after one invocation returned evidence
\* and another the empty-results marker
C9_Witness ==
  /\ pc = "ident3"
  /\ \E j \in 1..Len(outcomes) : outcomes[j].kind = "evidence"
  /\ \E j \in 1..Len(outcomes) : outcomes[j].kind = "novideo"

(***************************************************************************)
(* C10. Empty retrieval does not skip the final call: for every retrieval  *)
(* call that found no video result, the empty-results marker is that       *)
(* invocation's tool response in the conversation, and the request does    *)
(* not end without the third identification request having been sent       *)
(* (unless a later search is answered 403 or 429).                         *)
(***************************************************************************)
C10_EmptyRetrievalStillFinalCall ==
  \A j \in 1..Len(outcomes) :
    (/\ outcomes[j].kind = "novideo"
     /\ ~NoUsableQuery(RequestedCalls[outcomes[j].id])
     /\ ~quotaSeen) =>
      /\ \E k \in 1..Len(messages) :
           messages[k] = ToolMessage(EmptyResults, outcomes[j].id)
      /\ Done => ThirdRequestIssued

\* the transcript field of an Evidence tool response
TranscriptOf(content) == JSONparse(content).results[1].transcript

\* the tool response pushed for the j-th executed invocation carries text
\* as its transcript
RespondedWithTranscript(j, text) ==
  \E k \in 1..Len(messages) :
    /\ messages[k].role = "tool"
    /\ messages[k].tool_call_id = outcomes[j].id
    /\ TranscriptOf(messages[k].content) = text

\* the executed invocations that ended in one of kinds
Ended(kinds) == {j \in 1..Len(outcomes) : outcomes[j].kind \in kinds}

(***************************************************************************)
(* C11. No English captions: when the caption listing of an invocation     *)
(* succeeds without an English track, the invocation's Evidence carries    *)
(* "No English captions available.", caption payload requests are made     *)
(* only by invocations that found an English track, and the request does   *)
(* not end without the third identification request (unless a search is    *)
(* answered 403 or 429).                                                   *)
(***************************************************************************)
C11_NoEnglishCaptions ==
  /\ \A j \in Ended({"noEnglish"}) :
       ~NoUsableQuery(RequestedCalls[outcomes[j].id]) =>
         /\ RespondedWithTranscript(j, NoEnglishCaptions)
         /\ (Done /\ ~quotaSeen) => ThirdRequestIssued
  /\ NumIssued("track") =
       Cardinality(Ended({"trackError", "evidence"})) + (IF pc = "track" THEN 1 ELSE 0)

\* the executed invocation that returned last
LastOutcome == outcomes[Len(outcomes)]

\* every searchWebAndYoutube call made has returned to the loop, but for the
\* one in progress
SearchCallsReturn ==
  NumIssued("search") = Len(outcomes) + (IF pc \in RetrievalCalls THEN 1 ELSE 0)

(***************************************************************************)
(* C12. Search failure classification: searchWebAndYoutube returns the     *)
(* quota-exhausted outcome when the search request is answered 403 or 429, *)
(* and the empty-results outcome on any other failure of the search        *)
(* (another status, no answer, a malformed result list); it never raises   *)
(* to the loop; and after the empty-results outcome the request does not   *)
(* end without the third identification request (unless a search is        *)
(* answered 403 or 429).                                                   *)
(***************************************************************************)
C12_SearchFailureClassification ==
  /\ SearchCallsReturn
  /\ (caught # NoError /\ LastOutcome.kind \in {"searchError", "malformed"}) =>
       LastOutcome.returned =
         (IF caught.hasResponse /\ caught.status \in {HttpForbidden, HttpTooManyRequests}
          THEN QuotaExhausted ELSE EmptyResults)
  /\ \A j \in Ended({"searchError", "malformed"}) :
       (/\ outcomes[j].returned = EmptyResults
        /\ ~NoUsableQuery(RequestedCalls[outcomes[j].id])
        /\ Done
        /\ ~quotaSeen) =>
         ThirdRequestIssued

\* the Evidence for one search result carrying "Error fetching transcript."
ErrorEvidenceFor(result) ==
  JSONstringify(
    [results |-> <<[title |-> result.title, link |-> result.link,
                    snippet |-> result.snippet, video_id |-> VideoIdOf(result.link),
                    transcript |-> ErrorFetchingTranscript]>>])

(***************************************************************************)
(* C13. Caption failures never escape: in every step in which the caption  *)
(* listing or the caption payload request fails, whatever the failure (a   *)
(* 403 or 429 included), searchWebAndYoutube returns the Evidence of the   *)
(* first matching search result with "Error fetching transcript.", and the *)
(* loop pushes it as the invocation's tool response and goes on: the       *)
(* failure neither ends the request nor counts as quota exhaustion.        *)
(***************************************************************************)
C13_CaptionFailuresContained ==
  [][(pc \in {"captions", "track"} /\ caught' # NoError) =>
       /\ Len(outcomes') = Len(outcomes) + 1
       /\ outcomes'[Len(outcomes')].returned = ErrorEvidenceFor(firstMatch)
       /\ messages' = Append(messages, ToolMessage(ErrorEvidenceFor(firstMatch), toolCall.id))
       /\ pc' = "loop"
       /\ quotaSeen' = quotaSeen]_vars

\* the caption listing of the second invocation was answered 403, and the
\* loop is about to go on
C13_Witness ==
  /\ pc = "loop"
  /\ caught \in Errors
  /\ caught.status = HttpForbidden
  /\ Len(outcomes) = 2
  /\ LastOutcome.kind = "listError"
  /\ LastOutcome.returned =
       ErrorEvidenceFor([title |-> "video A", link |-> WatchLinkA, snippet |-> "sA"])

\* the kinds of line the normalizer is to discard
IsHeaderLine(line) == Len(line) >= 1 /\ line[1] = HeaderWord
IsMetadataLine(line) == Len(line) >= 1 /\ line[1] \in MetadataWords
IsCueIndexLine(line) == Len(line) >= 1 /\ \A k \in 1..Len(line) : line[k] = DigitRun
IsTimecodeLine(line) == Len(line) >= 1 /\ line[1] = TimecodeRange
IsBlankLine(line) == \A k \in 1..Len(line) : line[k] = Space

\* the lines of text that are of none of these kinds, joined by single spaces
KeptLinesJoined(text) ==
  JoinWithSpace(
    SelectSeq(SplitLines(text),
              LAMBDA l : ~(\/ IsHeaderLine(l) \/ IsMetadataLine(l) \/ IsCueIndexLine(l)
                           \/ IsTimecodeLine(l) \/ IsBlankLine(l))))

(***************************************************************************)
(* C14. Caption normalizer, line classification: the normalizer's output   *)
(* for a payload is the single-space join of exactly those lines of the    *)
(* payload that are none of: the WEBVTT header, a Kind: or Language: line, *)
(* a cue-index line (digits only), a timecode-range line, a blank line.    *)
(***************************************************************************)
C14_NormalizerLineClassification ==
  Len(normalized) >= 1 => normalized[1] = KeptLinesJoined(captionData)

(***************************************************************************)
(* C15. Caption normalizer, idempotence: normalizing the normalizer's      *)
(* output gives that output again.                                         *)
(***************************************************************************)
C15_NormalizerIdempotent ==
  Len(normalized) >= 2 => normalized[2] = normalized[1]

\* a payload of a cue index and a timecode range has been normalized twice,
\* and the first pass joined its two lines into one
C15_Witness ==
  /\ Len(normalized) = 2
  /\ captionData = <<DigitRun, Newline, TimecodeRange, Newline>>
  /\ normalized[1] = <<DigitRun, Space, TimecodeRange>>

\* the first identification call has returned or thrown, and no record was
\* parsed from its response
Phase1Failed ==
  /\ NumIssued(IdentificationCall) >= 1
  /\ pc # "ident1"
  /\ phase1 = NoRecord

(***************************************************************************)
(* C16. Phase-1 failure is fatal: when the first identification call fails *)
(* or its response does not parse, the request ends with an error response *)
(* and no retrieval call and no second or third identification call is     *)
(* made.                                                                   *)
(***************************************************************************)
C16_Phase1FailureFatal ==
  Phase1Failed =>
    /\ Done
    /\ response.status = HttpServerError
    /\ ~response.success
    /\ response.data = NoRecord
    /\ NumIssued(IdentificationCall) = 1
    /\ \A k \in 1..Len(issued) : issued[k] \notin RetrievalCalls

\* the first response did not parse as JSON
C16_Witness ==
  /\ Phase1Failed
  /\ response.error = JSONSyntaxError

\* the external calls made and not yet answered
InFlight == Len(issued) - answered

(***************************************************************************)
(* C17. External calls are strictly sequenced: at most one external call   *)
(* of the request is in flight at any time, and the requested invocations  *)
(* of the search function are executed one after another in the order      *)
(* requested: while one is in progress every earlier one has finished and  *)
(* no later one has started.                                               *)
(***************************************************************************)
C17_StrictlySequenced ==
  /\ InFlight \in {0, 1}
  /\ SearchCallsReturn
  /\ \A j \in 1..Len(outcomes) :
       /\ outcomes[j].id <= idx
       /\ RequestedCalls[outcomes[j].id].name = SearchFunction
       /\ \A i \in 1..(j - 1) : outcomes[i].id < outcomes[j].id
  /\ pc \in RetrievalCalls =>
       /\ \A j \in 1..Len(outcomes) : outcomes[j].id < idx
       /\ \A k \in 1..(idx - 1) :
            RequestedCalls[k].name = SearchFunction =>
              \E j \in 1..Len(outcomes) : outcomes[j].id = k

\* the second requested invocation is in progress, the first has finished
C17_Witness ==
  /\ pc = "captions"
  /\ idx = 2
  /\ Len(outcomes) = 1
  /\ outcomes[1].id = 1
  /\ InFlight = 1

(***************************************************************************)
(* C18. Request isolation: in every interleaving of two upload requests,   *)
(* each request transcribes its own uploaded file, and its outcome is the  *)
(* one it has when it runs alone: success with the record of its own       *)
(* upload, or the failure of its own transcription call.                   *)
(***************************************************************************)
C18_RequestIsolation ==
  \A r \in Requests :
    /\ requests[r].pc \in {"transcription", "done"} => requests[r].read = r
    /\ requests[r].pc = "done" =>
         \/ requests[r].status = HttpOk
         \/ requests[r].status = HttpServerError /\ requests[r].error = TranscriptionFailed

\* the handler has looked at a request that carries no file, or a file that
\* is neither video nor audio
NoFileUploaded == pc \notin {"multer", "handler"} /\ ~file.present
DisallowedFile ==
  pc \notin {"multer", "handler"} /\ file.present /\ file.mimetype = "image/png"

(***************************************************************************)
(* C19. Upload validation: a request with no uploaded file, or with a file *)
(* of a type that is not allowed, ends with a 400 error response and makes *)
(* no call to the transcription service, the identification provider or    *)
(* the retrieval tool; a file of a disallowed type is no longer in the     *)
(* uploads directory when the response is sent.                            *)
(***************************************************************************)
C19_UploadValidation ==
  (NoFileUploaded \/ DisallowedFile) =>
    /\ Done
    /\ response.status = HttpBadRequest
    /\ ~response.success
    /\ issued = <<>>
    /\ files = {}

\* an image was uploaded and refused
C19_Witness == Done /\ DisallowedFile /\ response.error = "Invalid file type"

(***************************************************************************)
(* C20. Exactly one response per request: the handler never sends a second *)
(* response, it has ended exactly when it has sent one, that response is   *)
(* a 400 or 500 error or a 200 carrying one record, and, every external    *)
(* call returning or failing in the end, the response is eventually sent.  *)
(***************************************************************************)
C20_ExactlyOneResponse ==
  /\ [](/\ sent \in {0, 1}
        /\ Done <=> sent = 1
        /\ Done =>
             \/ response.status \in {HttpBadRequest, HttpServerError} /\ ~response.success
             \/ /\ response.status = HttpOk
                /\ response.success
                /\ response.data # NoRecord)
  /\ <>(sent = 1)

\* the request ended with the record of the third identification response
C20_Witness ==
  /\ Done
  /\ sent = 1
  /\ ThirdRequestIssued
  /\ response.status = HttpOk
  /\ response.data.movie_or_series = "Inception"

\* the messages of the conversation after the assistant message
ToolResponses == SubSeq(messages, 3, Len(messages))

(***************************************************************************)
(* C21. Tool-response pairing: whenever the third identification request   *)
(* is sent, the conversation holds, after the assistant message with the   *)
(* requested invocations, exactly one tool message for each requested      *)
(* invocation, in request order and with that invocation's id.  Stated    *)
(* for requests in which no search was answered 403 or 429, so that the    *)
(* quota path is not involved.                                             *)
(***************************************************************************)
C21_ToolResponsePairing ==
  (ThirdRequestIssued /\ ~quotaSeen) =>
    /\ Len(ToolResponses) = Len(RequestedCalls)
    /\ \A k \in 1..Len(ToolResponses) :
         /\ ToolResponses[k].role = "tool"
         /\ ToolResponses[k].tool_call_id = RequestedCalls[k].id

\* Phase 1 answered "Unknown" and the second response has arrived and
\* requests no invocation: it has no tool_calls, or an empty list of them
SecondResponseWithoutInvocations ==
  /\ phase1 \in SceneRecords
  /\ phase1.movie_or_series = Unknown
  /\ pc \notin {"ident1", "ident2"}
  /\ RequestedCalls = <<>>
  /\ ~(Len(messages) = 1 /\ response.error = IdentificationFailed)

(***************************************************************************)
(* C22. Zero requested invocations: when Phase 1 yields "Unknown" and the  *)
(* second response requests no tool invocation, no retrieval call and no   *)
(* third identification call is made, exactly two identification calls     *)
(* occur, and the request ends with a 200 response carrying the Phase-1    *)
(* record.                                                                 *)
(***************************************************************************)
C22_ZeroInvocations ==
  SecondResponseWithoutInvocations =>
    /\ \A k \in 1..Len(issued) : issued[k] \notin RetrievalCalls
    /\ NumIssued(IdentificationCall) = 2
    /\ Done => SucceededWithPhase1

(***************************************************************************)
(* C23. Temporary file cleanup: once the upload handler has sent its       *)
(* response, whatever the outcome (success, validation error,              *)
(* transcription failure, identification failure), neither the uploaded    *)
(* file nor the renamed temp file of the request is left in the uploads    *)
(* directory.                                                              *)
(***************************************************************************)
C23_TempFileCleanup ==
  Done => (UploadPath \notin files /\ tempFilePath \notin files)

====
